---- MODULE Spec2Model ----
(***************************************************************************)
(* Homophone finder (Software/Word/homoform.py): the phoneme index build   *)
(* of PhonemeMapBuilder.run, the search of HomophoneWorker.process and the *)
(* MainWindow that starts them and shows their results; the language slots *)
(* and the translation worker of the translation-chain tool                *)
(* (Software/HybridTranslation/main.py); and the letter analysis of the     *)
(* character-frequency tool (Software/Latter_Frequency_Researcher.py).     *)
(* The three tools are separate programs: each specification moves the     *)
(* variables of one of them and leaves the others as constructed.          *)
(*                                                                         *)
(* Text is modelled character by character: a character is a one-letter    *)
(* string, a word or a phoneme symbol is a sequence of characters, a       *)
(* pronunciation is a sequence of symbols.  Zipf frequencies are held in   *)
(* hundredths (wordfreq rounds them to two decimals), so 2.0 is 200.       *)
(***************************************************************************)
EXTENDS Integers, Sequences, FiniteSets, TLC

VARIABLES
    cmu_dict,         \* cmudict.dict(): the entries <<word, prons>> in dict order
    builder_pc,       \* PhonemeMapBuilder.run: "run" (in the loop), "finished" or "raised"
    builder_i,        \* run: number of store entries already consumed
    builder_map,      \* run: the local phoneme_map (defaultdict, insertion order)
    progress,         \* every value emitted on PhonemeMapBuilder.progress so far
    finished_signal,  \* PhonemeMapBuilder.finished in flight: <<>> or <<map>>
    phoneme_map,      \* MainWindow.phoneme_map: <<>> (None) or <<map>>
    is_ready,         \* MainWindow.is_ready
    workers,          \* the HomophoneWorker objects, by slot
    input,            \* MainWindow.input: the text of the line edit
    accuracy_slider,  \* MainWindow.accuracy_slider.value()
    freq_slider,      \* MainWindow.freq_slider.value()
    result_limit_slider, \* MainWindow.result_limit_slider.value()
    unlimited_button, \* MainWindow.unlimited_button.isChecked()
    labels,           \* the texts of accuracy_value, freq_value, result_limit_value
    enabled,          \* the widgets of MainWindow that are enabled
    results_list,     \* MainWindow.results_list: its items
    worker,           \* MainWindow.worker: the slot of the latest worker, 0 for none
    connected,        \* the workers whose finished is connected to display_results
    finished_queue,   \* HomophoneWorker.finished signals queued to the window's thread
    last_search,      \* what the latest call of start_search did: <<>> or <<record>>
    builder_thread,   \* MainWindow.builder_thread: "running" or "quit"
    builds,           \* number of calls of build_phoneme_map so far
    orphans,          \* running builders whose thread object the window replaced
    aborted,          \* the process was aborted by Qt
    \* HybridTranslation/main.py, MainWindow
    language_slots,   \* self.language_slots: the list of <<slot number, language code>>
    lang_code_input,  \* the text of self.lang_code_input
    slot_input,       \* the text of self.slot_input
    current_row,      \* self.chain_list_widget.currentRow(), -1 for no selection
    input_text,       \* the text of self.input_text
    run_button,       \* self.run_button.isEnabled()
    chain_display,    \* what self.chain_display shows
    translation_workers, \* the TranslationWorker objects whose run has not returned
    translation_signals, \* the workers' signals queued to the window's thread
    worker_thread,    \* self.worker_thread: "none", "running" or "quit"
    history,          \* self.history
    translation_aborted, \* the translation tool's process was aborted by Qt
    \* Latter_Frequency_Researcher.py, PrecisionTextAnalyzer
    loaded_text,      \* self.loaded_text
    input_field,      \* the text of self.input_field
    n_spin,           \* self.n_spin.value()
    current_analysis, \* self.current_analysis: <<>> for {}, or <<record>>
    dialog,           \* the message box shown last, "" for none
    html_content,     \* analyze_a_to_z: the sections generated so far
    analyzer_raised   \* an exception left a slot of the analyzer

\* the widgets the user sets, and their labels
controls == <<input, accuracy_slider, freq_slider, result_limit_slider,
              unlimited_button, labels>>

\* the window's record of its searches
searches == <<worker, connected, last_search>>

\* everything of MainWindow but phoneme_map and is_ready
window == <<controls, enabled, results_list, searches, finished_queue,
            builder_thread, builds, orphans, aborted>>

\* the homophone finder
homophone == <<cmu_dict, builder_pc, builder_i, builder_map, progress,
               finished_signal, phoneme_map, is_ready, workers, window>>

\* the language slot editor of the translation tool
slots == <<language_slots, lang_code_input, slot_input, current_row>>

\* the translation run of the translation tool
chain == <<input_text, run_button, chain_display, translation_workers,
           translation_signals, worker_thread, history, translation_aborted>>

\* the character-frequency tool
analyzer == <<loaded_text, input_field, n_spin, current_analysis, dialog,
              html_content, analyzer_raised>>

\* the two other tools
tools == <<slots, chain, analyzer>>

vars == <<homophone, tools>>

(***************************************************************************)
(* Bounds of the model.                                                    *)
(***************************************************************************)
MaxWords == 4         \* a store holds at most this many dictionary entries
MaxCap == 2           \* result caps 0..MaxCap are requested
MaxBuilds == 2        \* build_phoneme_map is called at most this many times

(***************************************************************************)
(* Characters, in code point order (the order Python compares str by).     *)
(***************************************************************************)
Digits == <<"0", "1", "2", "3", "4", "5", "6", "7", "8", "9">>
Upper == <<"A", "B", "C", "D", "E", "F", "G", "H", "I", "J", "K", "L", "M",
           "N", "O", "P", "Q", "R", "S", "T", "U", "V", "W", "X", "Y", "Z">>
Lower == <<"a", "b", "c", "d", "e", "f", "g", "h", "i", "j", "k", "l", "m",
           "n", "o", "p", "q", "r", "s", "t", "u", "v", "w", "x", "y", "z">>
CodePoints == <<" ">> \o Digits \o Upper \o Lower

Range(s) == {s[i] : i \in DOMAIN s}

ord(c) == CHOOSE i \in DOMAIN CodePoints : CodePoints[i] = c

isdigit(c) == c \in Range(Digits)

\* str.lower(), one character
lower_char(c) ==
    IF c \in Range(Upper)
    THEN Lower[CHOOSE i \in DOMAIN Upper : Upper[i] = c]
    ELSE c

\* str.lower()
lower(w) == [i \in DOMAIN w |-> lower_char(w[i])]

\* str < str: the first differing character decides, else the shorter string
str_less(a, b) ==
    LET n == IF Len(a) < Len(b) THEN Len(a) ELSE Len(b)
        diff == {i \in 1..n : a[i] # b[i]}
    IN  IF diff = {}
        THEN Len(a) < Len(b)
        ELSE LET i == CHOOSE j \in diff : \A k \in diff : j <= k
             IN  ord(a[i]) < ord(b[i])

\* ' '.join(seq)
RECURSIVE join(_)
join(seq) ==
    IF seq = <<>> THEN <<>>
    ELSE IF Len(seq) = 1 THEN seq[1]
    ELSE seq[1] \o <<" ">> \o join(Tail(seq))

\* strip_stress leaving the stress digit on
strip_stress_kept(p) == p

\* tuple(p[:-1] if p[-1].isdigit() else p for p in pron)
strip_stress(p) == IF isdigit(p[Len(p)]) THEN SubSeq(p, 1, Len(p) - 1) ELSE p
clean(pron) == [i \in DOMAIN pron |-> strip_stress(pron[i])]

(***************************************************************************)
(* fuzz.ratio(s1, s2) of fuzzywuzzy over difflib.SequenceMatcher(None, s1, *)
(* s2): equal strings score 100, an empty string scores 0, otherwise       *)
(* int(round(100 * 2.0*M/T)) with M the characters in matching blocks and  *)
(* T the two lengths added.  Positions are 0-based and half open, as in    *)
(* difflib.                                                                *)
(***************************************************************************)
\* length of the common run of a[i:ahi] and b[j:bhi]
RECURSIVE run_length(_, _, _, _, _, _)
run_length(a, b, i, j, ahi, bhi) ==
    IF i < ahi /\ j < bhi /\ a[i + 1] = b[j + 1]
    THEN 1 + run_length(a, b, i + 1, j + 1, ahi, bhi)
    ELSE 0

\* SequenceMatcher.find_longest_match: <<i, j, k>>, k maximal, then the
\* earliest start in a, then the earliest start in b
find_longest_match(a, b, alo, ahi, blo, bhi) ==
    LET blocks == {<<i, j, run_length(a, b, i, j, ahi, bhi)>> :
                      i \in alo..(ahi - 1), j \in blo..(bhi - 1)}
        better(x, y) == \/ x[3] > y[3]
                        \/ x[3] = y[3] /\ x[1] < y[1]
                        \/ x[3] = y[3] /\ x[1] = y[1] /\ x[2] <= y[2]
    IN  IF blocks = {} THEN <<alo, blo, 0>>
        ELSE CHOOSE x \in blocks : \A y \in blocks : better(x, y)

\* SequenceMatcher.get_matching_blocks, summed: the longest block, then the
\* pieces to its left and to its right
RECURSIVE matches(_, _, _, _, _, _)
matches(a, b, alo, ahi, blo, bhi) ==
    LET m == find_longest_match(a, b, alo, ahi, blo, bhi)
    IN  IF m[3] = 0 THEN 0
        ELSE m[3] + matches(a, b, alo, m[1], blo, m[2])
                  + matches(a, b, m[1] + m[3], ahi, m[2] + m[3], bhi)

\* int(round(num / den)) for num, den > 0: Python rounds a half to even
round_div(num, den) ==
    LET q == num \div den
        r == num % den
    IN  IF 2 * r < den THEN q
        ELSE IF 2 * r > den THEN q + 1
        ELSE IF q % 2 = 0 THEN q ELSE q + 1

ratio(s1, s2) ==
    IF s1 = s2 THEN 100
    ELSE IF Len(s1) = 0 \/ Len(s2) = 0 THEN 0
    ELSE round_div(200 * matches(s1, s2, 0, Len(s1), 0, Len(s2)),
                   Len(s1) + Len(s2))

(***************************************************************************)
(* The pronunciation store and the frequency oracle.  A store is an        *)
(* excerpt of at most MaxWords entries of a small dictionary, kept in the  *)
(* dictionary's (alphabetical) order, as cmudict.dict() keeps the order of *)
(* the corpus file.                                                        *)
(***************************************************************************)
knight == <<"k", "n", "i", "g", "h", "t">>
night == <<"n", "i", "g", "h", "t">>
nights == <<"n", "i", "g", "h", "t", "s">>
nit == <<"n", "i", "t">>
nite == <<"n", "i", "t", "e">>

N_AY1_T == << <<"N">>, <<"A", "Y", "1">>, <<"T">> >>
N_AY2_T == << <<"N">>, <<"A", "Y", "2">>, <<"T">> >>
N_AY1_T_S == << <<"N">>, <<"A", "Y", "1">>, <<"T">>, <<"S">> >>
N_IH1_T == << <<"N">>, <<"I", "H", "1">>, <<"T">> >>
N_IY1_T == << <<"N">>, <<"I", "Y", "1">>, <<"T">> >>

Dictionary ==
    << [word |-> knight, prons |-> <<N_AY1_T>>],
       [word |-> night,  prons |-> <<N_AY1_T>>],
       [word |-> nights, prons |-> <<N_AY1_T_S>>],
       [word |-> nit,    prons |-> <<N_IH1_T, N_IY1_T>>],
       [word |-> nite,   prons |-> <<N_AY1_T, N_AY2_T>>] >>

\* the entries of d at the positions in S, in d's order
RECURSIVE excerpt(_, _)
excerpt(d, S) ==
    IF d = <<>> THEN <<>>
    ELSE LET rest == excerpt(Tail(d), {i - 1 : i \in S \ {1}})
         IN  IF 1 \in S THEN <<Head(d)>> \o rest ELSE rest

Stores == {excerpt(Dictionary, S) :
              S \in {T \in SUBSET DOMAIN Dictionary : Cardinality(T) <= MaxWords}}

\* the words wordfreq has a frequency for
FrequencyListed == {night, knight, nights, nit}

\* zipf_frequency(word, 'en'), in hundredths; 0.0 for a word wordfreq
\* does not know
zipf_frequency(word) ==
    CASE word = night  -> 530
      [] word = knight -> 420
      [] word = nights -> 420
      [] word = nit    -> 250
      [] OTHER         -> 0

(***************************************************************************)
(* PhonemeMapBuilder.run                                                   *)
(***************************************************************************)
\* phoneme_map[key].append(word) on a defaultdict(list)
map_append(m, key, word) ==
    IF \E i \in DOMAIN m : m[i].seq = key
    THEN LET i == CHOOSE j \in DOMAIN m : m[j].seq = key
         IN  [m EXCEPT ![i].words = Append(@, word)]
    ELSE Append(m, [seq |-> key, words |-> <<word>>])

\* a loop that files the word under its first pronunciation only
add_first_pron(m, word, prons) ==
    IF prons = <<>> THEN m
    ELSE map_append(m, clean(Head(prons)), lower(word))

\* for pron in prons: phoneme_map[clean].append(word.lower())
RECURSIVE add_prons(_, _, _)
add_prons(m, word, prons) ==
    IF prons = <<>> THEN m
    ELSE add_prons(map_append(m, clean(Head(prons)), lower(word)), word, Tail(prons))

\* the map run has built when its loop over store ends, starting from m
RECURSIVE built_from(_, _)
built_from(m, store) ==
    IF store = <<>> THEN m
    ELSE built_from(add_prons(m, Head(store).word, Head(store).prons), Tail(store))

\* the map run builds from the whole store
built_map(store) == built_from(<<>>, store)

\* percent counting the entries left instead of the entries done
percent_remaining(i, total) == ((total - i) * 100) \div total

\* int((i/total)*100); the float product truncates to the integer quotient
\* for every total below 50
percent(i, total) == (i * 100) \div total

\* cmudict.dict() raises in run (the corpus cannot be loaded).  run catches
\* nothing and PhonemeMapBuilder has no signal for a failure: the exception
\* leaves the slot, where PyQt either aborts the process or, with an
\* excepthook installed, prints the traceback and lets the thread idle.
BuilderRaise ==
    /\ ~aborted
    /\ builder_pc = "run"
    /\ builder_i = 0
    /\ builder_pc' = "raised"
    /\ aborted' \in BOOLEAN
    /\ UNCHANGED <<tools, cmu_dict, builder_i, builder_map, progress, finished_signal,
                   phoneme_map, is_ready, workers, controls, enabled, results_list,
                   searches, finished_queue, builder_thread, builds, orphans>>

\* one turn of the loop over cmu_dict.items()
BuilderStep ==
    /\ ~aborted
    /\ builder_pc = "run"
    /\ builder_i < Len(cmu_dict)
    /\ progress' = Append(progress, percent(builder_i, Len(cmu_dict)))
    /\ builder_map' = add_prons(builder_map, cmu_dict[builder_i + 1].word,
                                cmu_dict[builder_i + 1].prons)
    /\ builder_i' = builder_i + 1
    /\ UNCHANGED <<tools, cmu_dict, builder_pc, finished_signal, phoneme_map, is_ready,
                   workers, window>>

\* a builder that emits finished and stays where it is, to emit it again
BuilderFinish_again ==
    /\ ~aborted
    /\ builder_pc = "run"
    /\ builder_i = Len(cmu_dict)
    /\ Len(finished_signal) < 2
    /\ finished_signal' = Append(finished_signal, builder_map)
    /\ UNCHANGED <<tools, cmu_dict, builder_pc, builder_i, builder_map, progress, phoneme_map,
                   is_ready, workers, window>>

\* self.finished.emit(phoneme_map), after the loop
BuilderFinish ==
    /\ ~aborted
    /\ builder_pc = "run"
    /\ builder_i = Len(cmu_dict)
    /\ finished_signal' = Append(finished_signal, builder_map)
    /\ builder_pc' = "finished"
    /\ UNCHANGED <<tools, cmu_dict, builder_i, builder_map, progress, phoneme_map, is_ready,
                   workers, window>>

\* the widgets on_phoneme_ready enables
Widgets == {"input", "accuracy_slider", "freq_slider", "result_limit_slider",
            "button", "results_list", "unlimited_button"}

\* MainWindow.on_phoneme_ready, the slot of PhonemeMapBuilder.finished
on_phoneme_ready ==
    /\ ~aborted
    /\ finished_signal # <<>>
    /\ phoneme_map' = <<Head(finished_signal)>>
    /\ is_ready' = TRUE
    /\ finished_signal' = Tail(finished_signal)
    /\ builder_thread' = "quit"
    /\ enabled' = Widgets
    /\ results_list' = Append(results_list, <<"Ready! Enter a word to begin">>)
    /\ UNCHANGED <<tools, cmu_dict, builder_pc, builder_i, builder_map, progress, workers,
                   controls, searches, finished_queue, builds, orphans, aborted>>

(***************************************************************************)
(* HomophoneWorker                                                         *)
(***************************************************************************)
Slots == {1}

\* the worker objects that can be alive together
Threads == {1, 2}

Idle == [pc |-> "idle", query |-> <<>>, word |-> <<>>, accuracy |-> 0,
         min_zipf |-> 0, max_results |-> 0, use_freq_filter |-> FALSE,
         matched |-> {}, candidates |-> {}, emitted |-> <<>>]

\* the requests the model issues
Knight == <<"K", "n", "i", "g", "h", "t">>
QueryWords == {night, Knight, nit, nite}
Accuracies == {50, 75, 86, 100}
MinZipfs == {0, 200, 500}
Caps == 0..MaxCap

\* HomophoneWorker.__init__; query keeps the word as the caller passed it
HomophoneWorker(word, accuracy, min_zipf, max_results, use_freq_filter) ==
    [Idle EXCEPT !.pc = "constructed",
                 !.query = word,
                 !.word = lower(word),
                 !.accuracy = accuracy,
                 !.min_zipf = min_zipf,
                 !.max_results = max_results,
                 !.use_freq_filter = use_freq_filter]

\* a HomophoneWorker made on the built index, its finished left unconnected
Construct(w, word, accuracy, min_zipf, max_results, use_freq_filter) ==
    /\ ~aborted
    /\ is_ready
    /\ workers[w].pc = "idle"
    /\ workers' = [workers EXCEPT ![w] =
           HomophoneWorker(word, accuracy, min_zipf, max_results, use_freq_filter)]
    /\ UNCHANGED <<tools, cmu_dict, builder_pc, builder_i, builder_map, progress,
                   finished_signal, phoneme_map, is_ready, window>>

\* cmu_dict.get(word, [])
get_prons(store, word) ==
    IF \E i \in DOMAIN store : store[i].word = word
    THEN store[CHOOSE i \in DOMAIN store : store[i].word = word].prons
    ELSE <<>>

\* target_sequences with the stress digits left on
target_sequences_with_stress(target_prons) == target_prons

\* target_sequences, one clean tuple per pronunciation
target_sequences(target_prons) ==
    [i \in DOMAIN target_prons |-> clean(target_prons[i])]

\* is_match with the comparison strict
is_match_strict(score, accuracy) == score > accuracy

\* is_match with the comparison turned round
is_match_inverted(score, accuracy) == score <= accuracy

\* if score >= self.accuracy
is_match(score, accuracy) == score >= accuracy

\* the keys candidate_seq of the map that pass the test for some seq
matched_sequences(map, sequences, accuracy) ==
    {map[j].seq : j \in {k \in DOMAIN map :
        \E i \in DOMAIN sequences :
            is_match(ratio(join(sequences[i]), join(map[k].seq)), accuracy)}}

\* candidate_words taking only the first word of each matched key
candidate_words_first_only(map, matched) ==
    {map[j].words[1] : j \in {k \in DOMAIN map : map[k].seq \in matched}}

\* candidates, after candidates.update(self.phoneme_map[candidate_seq]) for
\* every matched key
candidate_words(map, matched) ==
    UNION {Range(map[j].words) : j \in {k \in DOMAIN map : map[k].seq \in matched}}

\* is_valid without the test against self.word
is_valid_keeping_self(self, word) ==
    IF self.use_freq_filter THEN zipf_frequency(word) >= self.min_zipf ELSE TRUE

\* is_valid without the frequency test
is_valid_unfiltered(self, word) == word # self.word

\* the body of the loop over candidates: is word appended to valid
is_valid(self, word) ==
    IF word = self.word THEN FALSE
    ELSE IF self.use_freq_filter THEN zipf_frequency(word) >= self.min_zipf
    ELSE TRUE

\* valid, for the order in which the set candidates is iterated
valid_words(self, order) == SelectSeq(order, LAMBDA word : is_valid(self, word))

\* key_less with key=lambda w: -zipf_frequency(w, 'en'), the word left out
key_less_by_frequency(a, b) == -zipf_frequency(a) < -zipf_frequency(b)

\* key=lambda w: (-zipf_frequency(w, 'en'), w), compared as tuples
key_less(a, b) ==
    \/ -zipf_frequency(a) < -zipf_frequency(b)
    \/ -zipf_frequency(a) = -zipf_frequency(b) /\ str_less(a, b)

\* sorted left out: the list as it was iterated
unsorted(list) == list

\* sorted(): stable, an element goes after every element not greater than it
RECURSIVE sorted(_)
sorted(list) ==
    IF list = <<>> THEN <<>>
    ELSE LET front == sorted(SubSeq(list, 1, Len(list) - 1))
             x == list[Len(list)]
             n == Cardinality({i \in DOMAIN front : ~key_less(x, front[i])})
         IN  SubSeq(front, 1, n) \o <<x>> \o SubSeq(front, n + 1, Len(front))

\* limited with the slice taken one element too long
limited_one_more(sorted_words, max_results) ==
    IF max_results > 0
    THEN SubSeq(sorted_words, 1,
                IF max_results + 1 < Len(sorted_words) THEN max_results + 1
                ELSE Len(sorted_words))
    ELSE sorted_words

\* sorted_words[:self.max_results] if self.max_results > 0 else sorted_words
limited(sorted_words, max_results) ==
    IF max_results > 0
    THEN SubSeq(sorted_words, 1,
                IF max_results < Len(sorted_words) THEN max_results
                ELSE Len(sorted_words))
    ELSE sorted_words

\* the orders in which a set may be iterated
Orders(S) == {s \in [1..Cardinality(S) -> S] : Range(s) = S}

\* the lists process can hand to finished.emit once candidates is known: one
\* for each order in which the sets candidates and set(valid) are iterated
ranked_lists(self, candidates) ==
    {limited(sorted(unique), self.max_results) :
        unique \in UNION {Orders(Range(valid_words(self, order))) :
                             order \in Orders(candidates)}}

\* defaultdict.__getitem__: a key the map lacks is inserted with an empty list
getitem(m, key) ==
    IF \E i \in DOMAIN m : m[i].seq = key
    THEN m
    ELSE Append(m, [seq |-> key, words |-> <<>>])

\* the map after self.phoneme_map[key] has been read for every key of keys
RECURSIVE getitems(_, _)
getitems(m, keys) ==
    IF keys = {} THEN m
    ELSE LET key == CHOOSE k \in keys : TRUE
         IN  getitems(getitem(m, key), keys \ {key})

\* process subscripting the map with the store's pronunciations as they are
subscripted_target_prons(target_prons, matched) == Range(target_prons)

\* the keys process subscripts self.phoneme_map with: the keys its loop over
\* the map gave it and that scored at least self.accuracy
subscripted(target_prons, matched) == matched

\* self.finished.emit(homophones): queued to the window when connected
emit(w, homophones) ==
    IF w \in connected
    THEN Append(finished_queue, [sender |-> w, homophones |-> homophones])
    ELSE finished_queue

\* a process that returns on an unknown word without emitting
Process_silent_unknown(w) ==
    /\ ~aborted
    /\ workers[w].pc = "constructed"
    /\ get_prons(cmu_dict, workers[w].word) = <<>>
    /\ workers' = [workers EXCEPT ![w].pc = "finished"]
    /\ UNCHANGED <<tools, cmu_dict, builder_pc, builder_i, builder_map, progress,
                   finished_signal, phoneme_map, is_ready, window>>

\* HomophoneWorker.process; matched and candidates record what the loops found
Process(w) ==
    LET self == workers[w]
        target_prons == get_prons(cmu_dict, self.word)
        map == phoneme_map[1]
        matched == matched_sequences(map, target_sequences(target_prons), self.accuracy)
        candidates == candidate_words(map, matched)
    IN  /\ ~aborted
        /\ self.pc = "constructed"
        /\ IF target_prons = <<>>
           THEN /\ workers' = [workers EXCEPT ![w].pc = "finished",
                                              ![w].emitted = Append(@, <<>>)]
                /\ finished_queue' = emit(w, <<>>)
                /\ phoneme_map' = phoneme_map
           ELSE /\ \E limited_words \in ranked_lists(self, candidates) :
                       /\ workers' = [workers EXCEPT
                              ![w].pc = "finished",
                              ![w].matched = matched,
                              ![w].candidates = candidates,
                              ![w].emitted = Append(@, limited_words)]
                       /\ finished_queue' = emit(w, limited_words)
                /\ phoneme_map' = <<getitems(map, subscripted(target_prons, matched))>>
        /\ UNCHANGED <<tools, cmu_dict, builder_pc, builder_i, builder_map, progress,
                       finished_signal, is_ready, controls, enabled, results_list,
                       searches, builder_thread, builds, orphans, aborted>>

\* worker.deleteLater, connected to worker.finished
deleteLater(w) ==
    /\ ~aborted
    /\ workers[w].pc = "finished"
    /\ workers' = [workers EXCEPT ![w] = Idle]
    /\ connected' = connected \ {w}
    /\ UNCHANGED <<tools, cmu_dict, builder_pc, builder_i, builder_map, progress,
                   finished_signal, phoneme_map, is_ready, controls, enabled,
                   results_list, worker, last_search, finished_queue,
                   builder_thread, builds, orphans, aborted>>

\* HybridTranslation MainWindow.__init__, all but language_slots
InitChain ==
    /\ lang_code_input = <<>>
    /\ slot_input = <<>>
    /\ current_row = -1
    /\ input_text = <<>>
    /\ run_button = TRUE
    /\ chain_display = ""
    /\ translation_workers = <<>>
    /\ translation_signals = <<>>
    /\ worker_thread = "none"
    /\ history = <<>>
    /\ translation_aborted = FALSE

\* PrecisionTextAnalyzer.__init__
InitAnalyzer ==
    /\ loaded_text = <<>>
    /\ input_field = <<>>
    /\ n_spin = 1
    /\ current_analysis = <<>>
    /\ dialog = ""
    /\ html_content = <<>>
    /\ analyzer_raised = FALSE

(***************************************************************************)
(* The specification: the index is built from a store, and then searches   *)
(* with any request run against it, one after another.                     *)
(***************************************************************************)
Init ==
    /\ cmu_dict \in Stores
    /\ builder_pc = "run"
    /\ builder_i = 0
    /\ builder_map = <<>>
    /\ progress = <<>>
    /\ finished_signal = <<>>
    /\ phoneme_map = <<>>
    /\ is_ready = FALSE
    /\ workers = [w \in Threads |-> Idle]
    /\ input = <<>>
    /\ accuracy_slider = 90
    /\ freq_slider = 2
    /\ result_limit_slider = 10
    /\ unlimited_button = FALSE
    /\ labels = [accuracy_value |-> <<90, "%">>,
                 freq_value |-> <<2, ".0 (Common words)">>,
                 result_limit_value |-> <<10, " results">>]
    /\ enabled = {}
    /\ results_list = <<>>
    /\ worker = 0
    /\ connected = {}
    /\ finished_queue = <<>>
    /\ last_search = <<>>
    /\ builder_thread = "running"
    /\ builds = 1
    /\ orphans = 0
    /\ aborted = FALSE
    /\ language_slots = <<>>
    /\ InitChain
    /\ InitAnalyzer

Next ==
    \/ BuilderRaise
    \/ BuilderStep
    \/ BuilderFinish
    \/ on_phoneme_ready
    \/ \E w \in Slots, word \in QueryWords, accuracy \in Accuracies,
          min_zipf \in MinZipfs, max_results \in Caps, use_freq_filter \in BOOLEAN :
          Construct(w, word, accuracy, min_zipf, max_results, use_freq_filter)
    \/ \E w \in Slots : Process(w)
    \/ \E w \in Slots : deleteLater(w)

Spec == Init /\ [][Next]_vars

(***************************************************************************)
(* MainWindow                                                              *)
(***************************************************************************)
\* what the user types, and the values the user moves the sliders to
Texts == {<<>>, <<"N", "i", "g", "h", "t", " ">>, nights, nit}
AccuracyValues == {86, 90}
FreqValues == {2, 5}
\* a limit slider whose range starts at 0
LimitValuesFromZero == {0, 10}

LimitValues == {1, 10}

\* the stores the window is run on
WindowStores == {excerpt(Dictionary, {1, 2, 3}), excerpt(Dictionary, {2, 4, 5})}

\* str.strip()
strip(text) ==
    LET inked == {i \in DOMAIN text : text[i] # " "}
    IN  IF inked = {} THEN <<>>
        ELSE SubSeq(text, CHOOSE i \in inked : \A j \in inked : i <= j,
                          CHOOSE i \in inked : \A j \in inked : j <= i)

\* the user edits the line edit
textEdited(text) ==
    /\ ~aborted
    /\ "input" \in enabled
    /\ input' = text
    /\ UNCHANGED <<tools, cmu_dict, builder_pc, builder_i, builder_map, progress,
                   finished_signal, phoneme_map, is_ready, workers,
                   accuracy_slider, freq_slider, result_limit_slider,
                   unlimited_button, labels, enabled, results_list, searches,
                   finished_queue, builder_thread, builds, orphans, aborted>>

\* QLineEdit.setText, called on the window's input
setText(text) ==
    /\ ~aborted
    /\ input' = text
    /\ UNCHANGED <<tools, cmu_dict, builder_pc, builder_i, builder_map, progress,
                   finished_signal, phoneme_map, is_ready, workers,
                   accuracy_slider, freq_slider, result_limit_slider,
                   unlimited_button, labels, enabled, results_list, searches,
                   finished_queue, builder_thread, builds, orphans, aborted>>

\* the user moves accuracy_slider; update_accuracy_label is its valueChanged slot
update_accuracy_label(value) ==
    /\ ~aborted
    /\ "accuracy_slider" \in enabled
    /\ value # accuracy_slider
    /\ accuracy_slider' = value
    /\ labels' = [labels EXCEPT !.accuracy_value = <<value, "%">>]
    /\ UNCHANGED <<tools, cmu_dict, builder_pc, builder_i, builder_map, progress,
                   finished_signal, phoneme_map, is_ready, workers, input,
                   freq_slider, result_limit_slider, unlimited_button, enabled,
                   results_list, searches, finished_queue, builder_thread,
                   builds, orphans, aborted>>

\* the user moves freq_slider; update_freq_label is its valueChanged slot
update_freq_label(value) ==
    /\ ~aborted
    /\ "freq_slider" \in enabled
    /\ value # freq_slider
    /\ freq_slider' = value
    /\ labels' = [labels EXCEPT !.freq_value = <<value, ".0 (Minimum frequency)">>]
    /\ UNCHANGED <<tools, cmu_dict, builder_pc, builder_i, builder_map, progress,
                   finished_signal, phoneme_map, is_ready, workers, input,
                   accuracy_slider, result_limit_slider, unlimited_button, enabled,
                   results_list, searches, finished_queue, builder_thread,
                   builds, orphans, aborted>>

\* the user moves result_limit_slider; update_result_limit_label is its
\* valueChanged slot
update_result_limit_label(value) ==
    /\ ~aborted
    /\ "result_limit_slider" \in enabled
    /\ value # result_limit_slider
    /\ result_limit_slider' = value
    /\ labels' = [labels EXCEPT !.result_limit_value = <<value, " results">>]
    /\ UNCHANGED <<tools, cmu_dict, builder_pc, builder_i, builder_map, progress,
                   finished_signal, phoneme_map, is_ready, workers, input,
                   accuracy_slider, freq_slider, unlimited_button, enabled,
                   results_list, searches, finished_queue, builder_thread,
                   builds, orphans, aborted>>

\* the user presses unlimited_button; toggle_result_limit is its toggled slot
toggle_result_limit(checked) ==
    /\ ~aborted
    /\ "unlimited_button" \in enabled
    /\ checked # unlimited_button
    /\ unlimited_button' = checked
    /\ enabled' = IF checked THEN enabled \ {"result_limit_slider"}
                  ELSE enabled \cup {"result_limit_slider"}
    /\ labels' = [labels EXCEPT !.result_limit_value =
                      IF checked THEN <<"All results">>
                      ELSE <<result_limit_slider, " results">>]
    /\ UNCHANGED <<tools, cmu_dict, builder_pc, builder_i, builder_map, progress,
                   finished_signal, phoneme_map, is_ready, workers, input,
                   accuracy_slider, freq_slider, result_limit_slider,
                   results_list, searches, finished_queue, builder_thread,
                   builds, orphans, aborted>>

\* the worker objects whose thread has not quit: process has yet to run, or
\* the finished signal that makes the thread quit is still queued
running_threads ==
    {w \in Threads : \/ workers[w].pc = "constructed"
                     \/ \E n \in DOMAIN finished_queue : finished_queue[n].sender = w}

\* the slots a new worker object can take
free_slots == {w \in Threads : workers[w].pc = "idle"} \ running_threads

\* MainWindow.start_search.  last_search records of the call whether is_ready
\* held, whether it started a worker, and whether it gave its caller anything
\* to see (it returns None on every path, and the early return leaves every
\* widget as it was).  Assigning self.thread and self.worker drops the
\* window's references to the previous QThread and worker; when that thread is
\* still running, Qt may abort the process as the QThread object is destroyed.
start_search ==
    LET word == lower(strip(input))
        accuracy == accuracy_slider
        min_zipf == freq_slider * 100
        max_results == IF ~unlimited_button THEN result_limit_slider ELSE 0
        use_freq_filter == ~unlimited_button
        w == CHOOSE v \in free_slots : \A u \in free_slots : v <= u
    IN  /\ ~aborted
        /\ IF word = <<>> \/ ~is_ready
           THEN /\ last_search' = <<[ready |-> is_ready, started |-> FALSE,
                                    feedback |-> FALSE]>>
                /\ UNCHANGED <<tools, cmu_dict, builder_pc, builder_i, builder_map, progress,
                               finished_signal, phoneme_map, is_ready, workers,
                               controls, enabled, results_list, worker, connected,
                               finished_queue, builder_thread, builds, orphans,
                               aborted>>
           ELSE /\ free_slots # {}
                /\ \/ /\ worker \in running_threads
                      /\ aborted' = TRUE
                      /\ UNCHANGED <<workers, results_list, worker, connected,
                                     last_search>>
                   \/ /\ workers' = [workers EXCEPT ![w] =
                             HomophoneWorker(word, accuracy, min_zipf, max_results,
                                             use_freq_filter)]
                      /\ results_list' = << <<"Searching...">> >>
                      /\ worker' = w
                      /\ connected' = connected \cup {w}
                      /\ last_search' = <<[ready |-> is_ready, started |-> TRUE,
                                           feedback |-> TRUE]>>
                      /\ aborted' = aborted
                /\ UNCHANGED <<tools, cmu_dict, builder_pc, builder_i, builder_map, progress,
                               finished_signal, phoneme_map, is_ready, controls,
                               enabled, finished_queue, builder_thread, builds,
                               orphans>>

\* the user presses the button; start_search is its clicked slot.  The user
\* of this model waits for a search to end before pressing again.
clicked ==
    /\ "button" \in enabled
    /\ running_threads = {}
    /\ \A w \in Threads : workers[w].pc = "idle"
    /\ start_search

\* the bullet prefix and the word for every word ("+ " stands for the
\* prefix, which is not ASCII), then f"Found {len(homophones)} homophones"
items(homophones) ==
    [n \in DOMAIN homophones |-> <<"+ ", homophones[n]>>]
        \o << <<"Found ", Len(homophones), " homophones">> >>

\* what display_results leaves in results_list
displayed(homophones) ==
    IF homophones # <<>> THEN items(homophones)
    ELSE << <<"No homophones found">> >>

\* MainWindow.display_results, the slot of HomophoneWorker.finished; the queued
\* signals reach the window in the order they were emitted
display_results ==
    /\ ~aborted
    /\ finished_queue # <<>>
    /\ results_list' = displayed(Head(finished_queue).homophones)
    /\ finished_queue' = Tail(finished_queue)
    /\ UNCHANGED <<tools, cmu_dict, builder_pc, builder_i, builder_map, progress,
                   finished_signal, phoneme_map, is_ready, workers, controls,
                   enabled, worker, connected, last_search, builder_thread,
                   builds, orphans, aborted>>

\* MainWindow.build_phoneme_map.  It has no condition: every call makes a new
\* QThread and PhonemeMapBuilder and starts them.  The previous thread object
\* loses its last reference; when it is still running Qt may abort the
\* process, otherwise the previous builder runs on beside the new one.
build_phoneme_map ==
    /\ ~aborted
    /\ builds < MaxBuilds
    /\ \/ /\ builder_thread = "running"
          /\ aborted' = TRUE
          /\ UNCHANGED <<builder_pc, builder_i, builder_map, progress,
                         builder_thread, builds, orphans>>
       \/ /\ builder_pc' = "run"
          /\ builder_i' = 0
          /\ builder_map' = <<>>
          /\ progress' = <<>>
          /\ builder_thread' = "running"
          /\ builds' = builds + 1
          /\ orphans' = IF builder_pc = "run" THEN orphans + 1 ELSE orphans
          /\ aborted' = aborted
    /\ UNCHANGED <<tools, cmu_dict, finished_signal, phoneme_map, is_ready, workers,
                   controls, enabled, results_list, searches, finished_queue>>

\* PhonemeMapBuilder.run of a builder the window no longer refers to, from
\* where it stands to its end
OrphanRun ==
    /\ ~aborted
    /\ orphans > 0
    /\ orphans' = orphans - 1
    /\ finished_signal' = Append(finished_signal, built_map(cmu_dict))
    /\ UNCHANGED <<tools, cmu_dict, builder_pc, builder_i, builder_map, progress,
                   phoneme_map, is_ready, workers, controls, enabled,
                   results_list, searches, finished_queue, builder_thread,
                   builds, aborted>>

\* the steps of the builder and worker threads and of the window's slots
Background ==
    \/ BuilderRaise
    \/ BuilderStep
    \/ BuilderFinish
    \/ on_phoneme_ready
    \/ \E w \in Threads : Process(w)
    \/ \E w \in Threads : deleteLater(w)
    \/ display_results

\* the application as the user drives it
InitWindow == Init /\ cmu_dict \in WindowStores

NextWindow ==
    \/ Background
    \/ \E text \in Texts : textEdited(text)
    \/ \E value \in AccuracyValues : update_accuracy_label(value)
    \/ \E value \in FreqValues : update_freq_label(value)
    \/ \E value \in LimitValues : update_result_limit_label(value)
    \/ \E checked \in BOOLEAN : toggle_result_limit(checked)
    \/ clicked

SpecWindow == InitWindow /\ [][NextWindow]_vars

\* the window's methods called by a program, at any time
InitCalls == Init /\ cmu_dict = excerpt(Dictionary, {1, 2, 3})

NextCalls ==
    \/ Background
    \/ \E text \in Texts : setText(text)
    \/ start_search
    \/ build_phoneme_map
    \/ OrphanRun

SpecCalls == InitCalls /\ [][NextCalls]_vars

(***************************************************************************)
(* The translation-chain tool: the language slots.                         *)
(***************************************************************************)
MaxSlot == 2          \* slot numbers stay at or below this

\* googletrans.LANGUAGES, four of its entries
LANGUAGES ==
    << [code |-> <<"e", "n">>, name |-> <<"e", "n", "g", "l", "i", "s", "h">>],
       [code |-> <<"e", "s">>, name |-> <<"s", "p", "a", "n", "i", "s", "h">>],
       [code |-> <<"e", "o">>, name |-> <<"e", "s", "p", "e", "r", "a", "n", "t", "o">>],
       [code |-> <<"h", "i">>, name |-> <<"h", "i", "n", "d", "i">>] >>

\* the abbreviations parse_language allows
mapping ==
    << [abbr |-> <<"e", "n", "g">>, code |-> <<"e", "n">>],
       [abbr |-> <<"h", "i", "n", "d", "i">>, code |-> <<"h", "i">>],
       [abbr |-> <<"h", "i", "n">>, code |-> <<"h", "i">>],
       [abbr |-> <<"u", "r", "d", "u">>, code |-> <<"u", "r">>],
       [abbr |-> <<"b", "a", "n", "g", "l", "a">>, code |-> <<"b", "n">>],
       [abbr |-> <<"b", "e", "n">>, code |-> <<"b", "n">>] >>

\* str.startswith
startswith(text, prefix) ==
    Len(prefix) <= Len(text) /\ SubSeq(text, 1, Len(prefix)) = prefix

\* parse_language: a code, a full name, a unique name prefix or an allowed
\* abbreviation; <<>> for None
parse_language(input_str) ==
    LET t == lower(strip(input_str))
        prefixed == {i \in DOMAIN LANGUAGES : startswith(lower(LANGUAGES[i].name), t)}
    IN  IF t = <<>> THEN <<>>
        ELSE IF \E i \in DOMAIN LANGUAGES : LANGUAGES[i].code = t THEN t
        ELSE IF \E i \in DOMAIN LANGUAGES : lower(LANGUAGES[i].name) = t
        THEN LANGUAGES[CHOOSE i \in DOMAIN LANGUAGES :
                           /\ lower(LANGUAGES[i].name) = t
                           /\ \A j \in DOMAIN LANGUAGES :
                                  lower(LANGUAGES[j].name) = t => i <= j].code
        ELSE IF Cardinality(prefixed) = 1
        THEN LANGUAGES[CHOOSE i \in prefixed : TRUE].code
        ELSE IF \E i \in DOMAIN mapping : mapping[i].abbr = t
        THEN mapping[CHOOSE i \in DOMAIN mapping : mapping[i].abbr = t].code
        ELSE <<>>

\* the value of a string of decimal digits
RECURSIVE digits_value(_)
digits_value(text) ==
    IF text = <<>> THEN 0
    ELSE 10 * digits_value(SubSeq(text, 1, Len(text) - 1))
         + (CHOOSE d \in 0..9 : Digits[d + 1] = text[Len(text)])

\* int(text) for a stripped text: <<n>>, or <<>> when int raises ValueError
int(text) ==
    LET signed == text # <<>> /\ text[1] \in {"-", "+"}
        body == IF signed THEN Tail(text) ELSE text
    IN  IF body # <<>> /\ \A i \in DOMAIN body : isdigit(body[i])
        THEN << IF signed /\ text[1] = "-" THEN 0 - digits_value(body)
                ELSE digits_value(body) >>
        ELSE <<>>

\* str(n) for an integer
RECURSIVE str(_)
str(n) ==
    IF n < 0 THEN <<"-">> \o str(0 - n)
    ELSE IF n < 10 THEN <<Digits[n + 1]>>
    ELSE str(n \div 10) \o <<Digits[(n % 10) + 1]>>

\* max([slot for slot, _ in self.language_slots], default=0)
max_slot(list) ==
    IF list = <<>> THEN 0
    ELSE LET nums == {list[i][1] : i \in DOMAIN list}
         IN  CHOOSE m \in nums : \A k \in nums : k <= m

\* one element put into a list sorted by slot number, after its equals
RECURSIVE insert_by_slot(_, _)
insert_by_slot(list, item) ==
    IF list = <<>> THEN <<item>>
    ELSE IF item[1] < Head(list)[1] THEN <<item>> \o list
    ELSE <<Head(list)>> \o insert_by_slot(Tail(list), item)

\* a sort that leaves the list as it is
sort_skipped(list) == list

\* list.sort(key=lambda x: x[0]): stable, ascending by slot number
RECURSIVE sort_by_slot(_)
sort_by_slot(list) ==
    IF list = <<>> THEN <<>>
    ELSE insert_by_slot(sort_by_slot(SubSeq(list, 1, Len(list) - 1)), list[Len(list)])

\* what the user types into the two fields
LangInputs == {<<>>, <<" ", "E", "N">>, <<"e">>, <<"s", "p", "a", "n">>}
SlotTexts == {<<>>, <<"2", " ">>, <<"x">>, <<"-", "1">>}

\* the user edits self.lang_code_input
lang_code_input_edited(text) ==
    /\ lang_code_input' = text
    /\ UNCHANGED <<homophone, chain, analyzer, language_slots, slot_input, current_row>>

\* the user edits self.slot_input
slot_input_edited(text) ==
    /\ slot_input' = text
    /\ UNCHANGED <<homophone, chain, analyzer, language_slots, lang_code_input,
                   current_row>>

\* the user selects a row of self.chain_list_widget
select_row(row) ==
    /\ row < Len(language_slots)
    /\ current_row' = row
    /\ UNCHANGED <<homophone, chain, analyzer, language_slots, lang_code_input,
                   slot_input>>

\* MainWindow.add_language_slot; refresh_chain_list clears the list widget,
\* which leaves no row selected
add_language_slot ==
    LET lang_code == parse_language(lang_code_input)
        slot_text == strip(slot_input)
        parsed == IF slot_text # <<>> THEN int(slot_text) ELSE <<>>
        slot_num == IF parsed # <<>> THEN parsed[1] ELSE max_slot(language_slots) + 1
        found == {i \in DOMAIN language_slots : language_slots[i][1] = slot_num}
        idx == CHOOSE i \in found : \A j \in found : i <= j
    IN  IF lang_code = <<>>
        THEN /\ lang_code_input' = <<>>
             /\ UNCHANGED <<homophone, chain, analyzer, language_slots, slot_input,
                            current_row>>
        ELSE /\ slot_num <= MaxSlot
             /\ language_slots' = sort_by_slot(
                    IF found # {}
                    THEN [language_slots EXCEPT ![idx] = <<slot_num, lang_code>>]
                    ELSE Append(language_slots, <<slot_num, lang_code>>))
             /\ current_row' = -1
             /\ lang_code_input' = <<>>
             /\ slot_input' = <<>>
             /\ UNCHANGED <<homophone, chain, analyzer>>

\* MainWindow.edit_language_slot
edit_language_slot ==
    /\ IF current_row >= 0 /\ current_row < Len(language_slots)
       THEN /\ lang_code_input' = language_slots[current_row + 1][2]
            /\ slot_input' = str(language_slots[current_row + 1][1])
       ELSE UNCHANGED <<lang_code_input, slot_input>>
    /\ UNCHANGED <<homophone, chain, analyzer, language_slots, current_row>>

\* MainWindow.remove_language_slot
remove_language_slot ==
    /\ IF current_row >= 0 /\ current_row < Len(language_slots)
       THEN /\ language_slots' = SubSeq(language_slots, 1, current_row)
                                 \o SubSeq(language_slots, current_row + 2,
                                           Len(language_slots))
            /\ current_row' = -1
       ELSE UNCHANGED <<language_slots, current_row>>
    /\ UNCHANGED <<homophone, chain, analyzer, lang_code_input, slot_input>>

NextSlots ==
    \/ \E text \in LangInputs : lang_code_input_edited(text)
    \/ \E text \in SlotTexts : slot_input_edited(text)
    \/ \E row \in 0..MaxSlot : select_row(row)
    \/ add_language_slot
    \/ edit_language_slot
    \/ remove_language_slot

\* the homophone finder stays as constructed, on the empty store
InitSlots == Init /\ cmu_dict = <<>>

SpecSlots == InitSlots /\ [][NextSlots]_vars

(***************************************************************************)
(* The translation-chain tool: the translation run.                        *)
(***************************************************************************)
MaxRuns == 2          \* at most this many runs are kept in the history

\* what the user types into self.input_text
InputTexts == {<<>>, <<" ">>, <<"h", "i", " ">>, <<"b", "y", "e">>}

\* the user edits self.input_text
input_text_edited(text) ==
    /\ ~translation_aborted
    /\ input_text' = text
    /\ UNCHANGED <<homophone, slots, analyzer, run_button, chain_display,
                   translation_workers, translation_signals, worker_thread,
                   history, translation_aborted>>

\* [code for _, code in sorted(self.language_slots, key=lambda x: x[0])]
sorted_chain(list) ==
    LET ordered == sort_by_slot(list)
    IN  [i \in DOMAIN ordered |-> ordered[i][2]]

\* MainWindow.run_translation_chain.  Assigning self.worker_thread drops the
\* window's reference to the previous QThread; that thread is still running
\* when its worker ended with error (only finished is connected to quit), and
\* Qt may then abort the process as the QThread object is destroyed.
run_translation_chain ==
    LET original_text == strip(input_text)
    IN  /\ ~translation_aborted
        /\ IF original_text = <<>>
           THEN /\ chain_display' = "Please enter input text."
                /\ UNCHANGED <<run_button, translation_workers, worker_thread,
                               translation_aborted>>
           ELSE /\ Len(history) < MaxRuns
                /\ \/ /\ worker_thread = "running"
                      /\ translation_aborted' = TRUE
                      /\ UNCHANGED <<run_button, chain_display, translation_workers,
                                     worker_thread>>
                   \/ /\ run_button' = FALSE
                      /\ chain_display' = "Processing translation chain..."
                      /\ translation_workers' = Append(translation_workers,
                             [original_text |-> original_text,
                              language_chain |-> sorted_chain(language_slots)])
                      /\ worker_thread' = "running"
                      /\ translation_aborted' = translation_aborted
        /\ UNCHANGED <<homophone, slots, analyzer, input_text, translation_signals,
                       history>>

\* the user presses run_button; run_translation_chain is its clicked slot
run_button_clicked ==
    /\ run_button
    /\ run_translation_chain

\* TranslationWorker.run: the chain is translated and finished is emitted
\* after the progress of its rounds, or an exception is caught and error is
\* emitted
TranslationWorker_run(k, outcome) ==
    LET self == translation_workers[k]
        rest == SubSeq(translation_workers, 1, k - 1)
                \o SubSeq(translation_workers, k + 1, Len(translation_workers))
    IN  /\ ~translation_aborted
        /\ k \in DOMAIN translation_workers
        /\ translation_workers' = rest
        /\ translation_signals' = translation_signals \o
               (IF outcome = "finished"
                THEN << [kind |-> "progress", worker |-> self],
                        [kind |-> "finished", worker |-> self] >>
                ELSE << [kind |-> "error", worker |-> self] >>)
        /\ UNCHANGED <<homophone, slots, analyzer, input_text, run_button,
                       chain_display, worker_thread, history, translation_aborted>>

\* a progress slot that also enables the button
update_live_progress_enabling ==
    /\ ~translation_aborted
    /\ translation_signals # <<>>
    /\ Head(translation_signals).kind = "progress"
    /\ chain_display' = "chain so far"
    /\ run_button' = TRUE
    /\ translation_signals' = Tail(translation_signals)
    /\ UNCHANGED <<homophone, slots, analyzer, input_text, translation_workers,
                   worker_thread, history, translation_aborted>>

\* MainWindow.update_live_progress, the slot of TranslationWorker.progress
update_live_progress ==
    /\ ~translation_aborted
    /\ translation_signals # <<>>
    /\ Head(translation_signals).kind = "progress"
    /\ chain_display' = "chain so far"
    /\ translation_signals' = Tail(translation_signals)
    /\ UNCHANGED <<homophone, slots, analyzer, input_text, run_button,
                   translation_workers, worker_thread, history, translation_aborted>>

\* MainWindow.handle_worker_finished, and the quit of the thread connected
\* to the same signal
handle_worker_finished ==
    /\ ~translation_aborted
    /\ translation_signals # <<>>
    /\ Head(translation_signals).kind = "finished"
    /\ chain_display' = "chain"
    /\ run_button' = TRUE
    /\ history' = Append(history, [chain |-> Head(translation_signals).worker.language_chain,
                                   input |-> input_text])
    /\ worker_thread' = "quit"
    /\ translation_signals' = Tail(translation_signals)
    /\ UNCHANGED <<homophone, slots, analyzer, input_text, translation_workers,
                   translation_aborted>>

\* MainWindow.handle_worker_error
handle_worker_error ==
    /\ ~translation_aborted
    /\ translation_signals # <<>>
    /\ Head(translation_signals).kind = "error"
    /\ chain_display' = "Error"
    /\ run_button' = TRUE
    /\ translation_signals' = Tail(translation_signals)
    /\ UNCHANGED <<homophone, slots, analyzer, input_text, translation_workers,
                   worker_thread, history, translation_aborted>>

NextChain ==
    \/ \E text \in InputTexts : input_text_edited(text)
    \/ run_button_clicked
    \/ \E k \in 1..MaxRuns, outcome \in {"finished", "error"} :
           TranslationWorker_run(k, outcome)
    \/ update_live_progress
    \/ handle_worker_finished
    \/ handle_worker_error

SpecChain == InitSlots /\ [][NextChain]_vars

(***************************************************************************)
(* The character-frequency tool (PrecisionTextAnalyzer).                   *)
(***************************************************************************)
MaxN == 2             \* n_spin ranges over 1..MaxN (1..5 in the window)

\* the combined text of the files the user opens: each file's text and "\n"
Files == {<<"\n">>, <<"A", "b", "\n">>, <<"b", "a", " ", "b", "\n">>, <<"a", "a", "\n">>, <<"a", "b", "c", "d", "e", "f", "g", "h", "i", "j", "k", "l", "m", "n", "o", "p", "q", "r", "s", "t", "u", "v", "w", "x", "y", "z", "a", "\n">>}

\* what the user types into self.input_field
FieldTexts == {<<>>, <<"a">>, <<" ", "b">>, <<"a", "b">>}

\* string.punctuation, but for the backquote, which no string here can hold
\* and no text of Files contains
punctuation ==
    {"!", "\"", "#", "$", "%", "&", "'", "(", ")", "*", "+", ",", "-", ".",
     "/", ":", ";", "<", "=", ">", "?", "@", "[", "\\", "]", "^", "_", "{",
     "|", "}", "~"}

\* PrecisionTextAnalyzer.get_valid_characters with the three boxes checked
\* and nothing typed into ignore_input, as the window starts
get_valid_characters ==
    {Lower[i] : i \in DOMAIN Lower} \cup {Upper[i] : i \in DOMAIN Upper}
    \cup {Digits[i] : i \in DOMAIN Digits} \cup punctuation

\* the positions of analyze_text's loop, range(len(text) - n), that count:
\* the target stands there and the n characters after it are all valid
hits(text, target, n) ==
    {i \in 1..(Len(text) - n) :
        /\ text[i] = target[1]
        /\ \A j \in 1..n : text[i + j] \in get_valid_characters}

\* sequences, the defaultdict(int) of analyze_text
counted(text, target, n) ==
    LET seq(i) == SubSeq(text, i + 1, i + n)
        found  == hits(text, target, n)
    IN  [s \in {seq(i) : i \in found} |->
            Cardinality({i \in found : seq(i) = s})]

\* PrecisionTextAnalyzer.analyze_text on the window's fields: what it leaves
\* in current_analysis and the message box it shows
analyzed(text, field, n, analysis, box) ==
    LET target == strip(field)
    IN  IF text = <<>>
        THEN [current_analysis |-> analysis,
              dialog |-> "Please load text files first"]
        ELSE IF Len(target) # 1
        THEN [current_analysis |-> analysis,
              dialog |-> "Please enter exactly one target character"]
        ELSE IF hits(text, target, n) = {}
        THEN [current_analysis |-> analysis,
              dialog |-> "No matching sequences found"]
        ELSE [current_analysis |->
                  << [target |-> target, n |-> n,
                      sequences |-> counted(text, target, n),
                      total |-> Cardinality(hits(text, target, n))] >>,
              dialog |-> box]

\* PrecisionTextAnalyzer.load_files with files chosen
load_files(text) ==
    /\ ~analyzer_raised
    /\ loaded_text' = lower(text)
    /\ UNCHANGED <<homophone, slots, chain, input_field, n_spin, current_analysis,
                   dialog, html_content, analyzer_raised>>

\* the user edits self.input_field
input_field_edited(text) ==
    /\ ~analyzer_raised
    /\ input_field' = text
    /\ UNCHANGED <<homophone, slots, chain, loaded_text, n_spin, current_analysis,
                   dialog, html_content, analyzer_raised>>

\* the user turns self.n_spin
n_spin_changed(n) ==
    /\ ~analyzer_raised
    /\ n_spin' = n
    /\ UNCHANGED <<homophone, slots, chain, loaded_text, input_field,
                   current_analysis, dialog, html_content, analyzer_raised>>

\* PrecisionTextAnalyzer.analyze_text, the slot of analyze_btn
analyze_text ==
    LET done == analyzed(loaded_text, input_field, n_spin, current_analysis, dialog)
    IN  /\ ~analyzer_raised
        /\ current_analysis' = done.current_analysis
        /\ dialog' = done.dialog
        /\ UNCHANGED <<homophone, slots, chain, loaded_text, input_field, n_spin,
                       html_content, analyzer_raised>>

\* PrecisionTextAnalyzer._generate_single_letter_html: the target the
\* section is headed with
_generate_single_letter_html(analysis) == analysis[1].target

\* the loop of analyze_a_to_z from the i-th letter of string.ascii_lowercase
\* on.  Reading current_analysis['sequences'] of the empty dict raises
\* KeyError, which ends the handler before the report is written.
RECURSIVE a_to_z(_, _, _, _)
a_to_z(i, analysis, box, html) ==
    IF i > Len(Lower)
    THEN [input_field |-> <<Lower[Len(Lower)]>>, current_analysis |-> analysis,
          dialog |-> box, html_content |-> html, raised |-> FALSE]
    ELSE LET target == <<Lower[i]>>
             done   == analyzed(loaded_text, target, n_spin, analysis, box)
         IN  IF done.current_analysis = <<>>
             THEN [input_field |-> target, current_analysis |-> <<>>,
                   dialog |-> done.dialog, html_content |-> html_content,
                   raised |-> TRUE]
             ELSE a_to_z(i + 1, done.current_analysis, done.dialog,
                         Append(html, _generate_single_letter_html(
                                          done.current_analysis)))

\* PrecisionTextAnalyzer.analyze_a_to_z, the slot of analyze_a_z_btn
analyze_a_to_z ==
    /\ ~analyzer_raised
    /\ IF loaded_text = <<>>
       THEN /\ dialog' = "Please load text files first"
            /\ UNCHANGED <<input_field, current_analysis, html_content,
                           analyzer_raised>>
       ELSE LET report == a_to_z(1, current_analysis, dialog, <<>>)
            IN  /\ input_field' = report.input_field
                /\ current_analysis' = report.current_analysis
                /\ dialog' = report.dialog
                /\ html_content' = report.html_content
                /\ analyzer_raised' = report.raised
    /\ UNCHANGED <<homophone, slots, chain, loaded_text, n_spin>>

NextAnalyzer ==
    \/ \E text \in Files : load_files(text)
    \/ \E text \in FieldTexts : input_field_edited(text)
    \/ \E n \in 1..MaxN : n_spin_changed(n)
    \/ analyze_text
    \/ analyze_a_to_z

SpecAnalyzer == InitSlots /\ [][NextAnalyzer]_vars

(***************************************************************************)
(* Properties of the search.                                               *)
(***************************************************************************)
Finished == {w \in Slots : workers[w].pc = "finished"}

\* the list a finished worker emitted
Result(w) == workers[w].emitted[1]

\* the words process keeps: the candidates other than the query word that
\* pass the frequency filter when it is on
Kept(w) ==
    {word \in workers[w].candidates :
        /\ word # workers[w].word
        /\ workers[w].use_freq_filter => zipf_frequency(word) >= workers[w].min_zipf}

\* the first k elements of a list, or all of it when it is shorter
Take(list, k) == SubSeq(list, 1, IF k < Len(list) THEN k ELSE Len(list))

\* C1: no emitted result contains the query word, compared without regard
\* to letter case, whatever the threshold, the frequency settings and the cap.
C1_QueryWordNeverReturned ==
    \A w \in Finished : \A i \in DOMAIN workers[w].emitted :
        \A j \in DOMAIN workers[w].emitted[i] :
            lower(workers[w].emitted[i][j]) # lower(workers[w].query)

\* a search for "Knight" found "knight" among the candidates and returned others
C1_Witness ==
    \E w \in Finished :
        /\ workers[w].query # workers[w].word
        /\ workers[w].word \in workers[w].candidates
        /\ Result(w) # <<>>

\* C2: with the frequency filter on, every returned word has frequency >=
\* min_zipf; with it off and cap 0, the result holds exactly the candidates
\* other than the query word, whatever min_zipf is.
C2_FrequencyFilter ==
    \A w \in Finished :
        /\ workers[w].use_freq_filter =>
               \A j \in DOMAIN Result(w) :
                   zipf_frequency(Result(w)[j]) >= workers[w].min_zipf
        /\ (~workers[w].use_freq_filter /\ workers[w].max_results = 0) =>
               Range(Result(w)) = workers[w].candidates \ {workers[w].word}

\* a filtered search returned some words and dropped a candidate as too rare
C2_Witness ==
    \E w \in Finished :
        /\ workers[w].use_freq_filter
        /\ Result(w) # <<>>
        /\ \E word \in workers[w].candidates \ {workers[w].word} :
               zipf_frequency(word) < workers[w].min_zipf

\* an unfiltered search with cap 0 returned a word rarer than its min_zipf
C2_WitnessFilterOff ==
    \E w \in Finished :
        /\ ~workers[w].use_freq_filter
        /\ workers[w].max_results = 0
        /\ \E j \in DOMAIN Result(w) :
               zipf_frequency(Result(w)[j]) < workers[w].min_zipf

\* C3: the result is in descending order of frequency, and words of equal
\* frequency are in ascending lexicographic order: each word is followed by a
\* rarer one, or by one as frequent that is greater as a string.
C3_ResultOrdered ==
    \A w \in Finished : \A j \in 1..(Len(Result(w)) - 1) :
        LET a == Result(w)[j]
            b == Result(w)[j + 1]
        IN  \/ zipf_frequency(a) > zipf_frequency(b)
            \/ zipf_frequency(a) = zipf_frequency(b) /\ str_less(a, b)

\* a result with two words of equal frequency and a rarer one after them
C3_Witness ==
    \E w \in Finished : \E j \in 1..(Len(Result(w)) - 2) :
        /\ zipf_frequency(Result(w)[j]) = zipf_frequency(Result(w)[j + 1])
        /\ zipf_frequency(Result(w)[j + 1]) > zipf_frequency(Result(w)[j + 2])

\* C4: with cap k > 0 the result has at most k words and is the first k words
\* (or all) of every list the same request yields with cap 0; with cap 0 the
\* result is the whole list, one entry for each kept word.
C4_CapIsPrefix ==
    \A w \in Finished :
        LET self == workers[w]
            uncapped == ranked_lists([self EXCEPT !.max_results = 0], self.candidates)
        IN  /\ self.max_results > 0 =>
                /\ Len(Result(w)) <= self.max_results
                /\ \A full \in uncapped : Result(w) = Take(full, self.max_results)
            /\ self.max_results = 0 =>
                /\ Range(Result(w)) = Kept(w)
                /\ Len(Result(w)) = Cardinality(Kept(w))

\* a capped search whose uncapped list is longer than the cap
C4_Witness ==
    \E w \in Finished :
        /\ workers[w].max_results > 0
        /\ Cardinality(Kept(w)) > workers[w].max_results
        /\ Len(Result(w)) = workers[w].max_results

\* the finished workers whose query word has an entry in the store
FinishedKnown == {w \in Finished : get_prons(cmu_dict, workers[w].word) # <<>>}

\* the query word's pronunciations, normalized
QuerySequences(w) ==
    {clean(pron) : pron \in Range(get_prons(cmu_dict, workers[w].word))}

\* the keys of the index
IndexKeys == {phoneme_map[1][k].seq : k \in DOMAIN phoneme_map[1]}

\* the words the index lists under a key
WordsOf(key) ==
    UNION {Range(phoneme_map[1][k].words) :
              k \in {j \in DOMAIN phoneme_map[1] : phoneme_map[1][j].seq = key}}

\* C5: an indexed sequence is matched exactly when its score against one of
\* the query word's normalized pronunciations is >= the threshold, and the
\* candidates are exactly the words listed under the matched sequences.
C5_MatchedAndCandidates ==
    \A w \in FinishedKnown :
        /\ workers[w].matched =
               {key \in IndexKeys : \E seq \in QuerySequences(w) :
                   ratio(join(seq), join(key)) >= workers[w].accuracy}
        /\ workers[w].candidates = UNION {WordsOf(key) : key \in workers[w].matched}

\* a sequence matched through one pronunciation only, holding two words,
\* beside a sequence that is not matched
C5_Witness ==
    \E w \in FinishedKnown :
        /\ \E key \in workers[w].matched :
               /\ \E seq \in QuerySequences(w) :
                      ratio(join(seq), join(key)) < workers[w].accuracy
               /\ Cardinality(WordsOf(key)) >= 2
        /\ \E key \in IndexKeys \ workers[w].matched :
               WordsOf(key) \cap workers[w].candidates = {}

\* C6: at threshold 100 the matched sequences are exactly the indexed
\* sequences equal to one of the query word's normalized pronunciations, each
\* of which is matched.
C6_ExactAtHundred ==
    \A w \in FinishedKnown :
        workers[w].accuracy = 100 =>
            /\ workers[w].matched = IndexKeys \cap QuerySequences(w)
            /\ QuerySequences(w) \subseteq workers[w].matched

\* a search at 100 for a word with two pronunciations left a close sequence out
C6_Witness ==
    \E w \in FinishedKnown :
        /\ workers[w].accuracy = 100
        /\ Cardinality(workers[w].matched) = 2
        /\ \E key \in IndexKeys \ workers[w].matched : \E seq \in QuerySequences(w) :
               ratio(join(seq), join(key)) >= 80

\* the thresholds the matched set is compared at
Thresholds == Accuracies \cup {70, 90}

\* C7: for the same index and query word, the sequences matched at a
\* threshold are among those matched at any lower one.
C7_MatchMonotone ==
    \A w \in FinishedKnown :
        LET sequences == target_sequences(get_prons(cmu_dict, workers[w].word))
            at(t) == matched_sequences(phoneme_map[1], sequences, t)
        IN  \A t \in Thresholds :
                /\ t <= workers[w].accuracy => workers[w].matched \subseteq at(t)
                /\ t >= workers[w].accuracy => at(t) \subseteq workers[w].matched

\* a search at 100 that matches fewer sequences than the same search at 70
C7_Witness ==
    \E w \in FinishedKnown :
        /\ workers[w].accuracy = 100
        /\ workers[w].matched # {}
        /\ Cardinality(matched_sequences(phoneme_map[1],
               target_sequences(get_prons(cmu_dict, workers[w].word)), 70))
           > Cardinality(workers[w].matched)

\* C8: a search emits the same list whatever the order in which its sets
\* are iterated: every list the request can yield is the one emitted.
C8_Deterministic ==
    \A w \in FinishedKnown :
        ranked_lists(workers[w], workers[w].candidates) = {Result(w)}

\* a result of three words or more, two of them of equal frequency
C8_Witness ==
    \E w \in FinishedKnown :
        /\ Len(Result(w)) >= 3
        /\ \E i, j \in DOMAIN Result(w) :
               i # j /\ zipf_frequency(Result(w)[i]) = zipf_frequency(Result(w)[j])

\* C9: with cap 0, every indexed word other than the query word that is
\* listed under one of the query word's normalized pronunciations and passes
\* the frequency filter (or the filter is off) is returned, and the query
\* word is not.
C9_ExactHomophonesReturned ==
    \A w \in FinishedKnown :
        workers[w].max_results = 0 =>
            /\ \A key \in IndexKeys \cap QuerySequences(w) :
                   \A word \in WordsOf(key) \ {workers[w].word} :
                       (~workers[w].use_freq_filter
                           \/ zipf_frequency(word) >= workers[w].min_zipf)
                       => word \in Range(Result(w))
            /\ workers[w].word \notin Range(Result(w))

\* "night" searched at 100 with the filter on returns "knight"
C9_Witness ==
    \E w \in FinishedKnown :
        /\ workers[w].word = night
        /\ workers[w].accuracy = 100
        /\ workers[w].use_freq_filter
        /\ workers[w].max_results = 0
        /\ knight \in Range(Result(w))

\* C10: once the build of a non-empty store has emitted finished, the last
\* progress value emitted is 100.
C10_ProgressEndsAtHundred ==
    (builder_pc = "finished" /\ cmu_dict # <<>>) => progress[Len(progress)] = 100

(***************************************************************************)
(* Properties of the index build.                                          *)
(***************************************************************************)
\* C11: every progress value emitted is in 0..100, and the values emitted
\* never decrease.
C11_ProgressMonotone ==
    \A i \in DOMAIN progress :
        /\ progress[i] \in 0..100
        /\ i > 1 => progress[i - 1] <= progress[i]

\* a finished build that emitted three values or more, the last above the first
C11_Witness ==
    /\ builder_pc = "finished"
    /\ Len(progress) >= 3
    /\ progress[1] < progress[Len(progress)]

\* every map there is: the builder's, the one in the finished signal, the
\* window's
Maps == {builder_map} \cup Range(finished_signal) \cup Range(phoneme_map)

\* C12: no word is listed twice under one key of the index.
C12_NoWordTwicePerKey ==
    \A m \in Maps : \A k \in DOMAIN m : \A i, j \in DOMAIN m[k].words :
        m[k].words[i] = m[k].words[j] => i = j

\* C13: no symbol of a key of the index ends in a digit, during the build
\* and after it.
C13_KeysNormalized ==
    \A m \in Maps : \A k \in DOMAIN m : \A n \in DOMAIN m[k].seq :
        ~isdigit(m[k].seq[n][Len(m[k].seq[n])])

\* the build has indexed an entry whose pronunciation carries a stress digit
\* and is still running
C13_Witness ==
    /\ builder_pc = "run"
    /\ builder_i >= 1
    /\ builder_map # <<>>
    /\ \E n \in DOMAIN cmu_dict[1].prons[1] :
           isdigit(cmu_dict[1].prons[1][n][Len(cmu_dict[1].prons[1][n])])

\* C20: with the frequency filter on, a word wordfreq has no frequency for
\* is never returned, whatever min_zipf is.
C20_AbsentFrequencyFiltered ==
    \A w \in Finished :
        workers[w].use_freq_filter =>
            \A j \in DOMAIN Result(w) : Result(w)[j] \in FrequencyListed

(***************************************************************************)
(* Properties of the window and of searches running side by side.          *)
(***************************************************************************)
\* C14: a step in which a worker runs process, whatever path it takes and
\* whatever the other worker is doing, leaves the window's phoneme_map as it
\* was: no key is added and no word list changes.
C14_ProcessLeavesIndex ==
    [][(\E w \in Threads : workers[w].pc = "constructed" /\ workers'[w].pc = "finished")
           => phoneme_map' = phoneme_map]_vars

\* the second worker, started while the first had yet to run, has finished
\* with matches and the first is still to run on the same map
C14_Witness ==
    /\ workers[1].pc = "constructed"
    /\ workers[2].pc = "finished"
    /\ workers[2].matched # {}
    /\ worker = 2
    /\ phoneme_map = <<built_map(cmu_dict)>>

\* the state of the index: no builder started, a builder at work, or the
\* window holding the map
lifecycle ==
    IF is_ready THEN "Ready"
    ELSE IF builder_thread = "running" THEN "Building" ELSE "Unbuilt"

\* C15: whatever the user does, the index only moves Unbuilt -> Building ->
\* Ready; once the window is ready, on_phoneme_ready never runs again, is_ready
\* stays true and phoneme_map is never assigned again.
C15_LifecycleOneWay ==
    [][/\ <<lifecycle, lifecycle'>> \in
              {<<"Unbuilt", "Unbuilt">>, <<"Unbuilt", "Building">>,
               <<"Building", "Building">>, <<"Building", "Ready">>,
               <<"Ready", "Ready">>}
       /\ is_ready => /\ ~on_phoneme_ready
                      /\ is_ready'
                      /\ phoneme_map' = phoneme_map]_vars

\* the window is ready, the user has changed the controls and a search made
\* from them has been shown
C15_Witness ==
    /\ is_ready
    /\ unlimited_button
    /\ accuracy_slider # 90
    /\ \E n \in DOMAIN results_list : results_list[n][1] = "Found "
    /\ phoneme_map = <<built_map(cmu_dict)>>

\* C16: a start_search made before the window is ready starts no worker and
\* tells its caller so.
C16_NotReadyRejected ==
    \A call \in Range(last_search) :
        ~call.ready => ~call.started /\ call.feedback

\* the builders that are inside run
running_builders == orphans + (IF builder_pc = "run" THEN 1 ELSE 0)

\* C17: at most one builder is inside run at any time, and no running builder
\* has been replaced as the window's builder.
C17_OneBuildInFlight == running_builders <= 1 /\ orphans = 0

\* the workers, of all that can be alive together, that have emitted
FinishedThreads == {w \in Threads : workers[w].pc = "finished"}

\* C18: the value a worker emits for a word the store does not hold is never
\* the value another worker emits for a word the store holds.
C18_UnknownWordDistinct ==
    \A a, b \in FinishedThreads :
        /\ get_prons(cmu_dict, workers[a].word) = <<>>
        /\ get_prons(cmu_dict, workers[b].word) # <<>>
        => workers[a].emitted # workers[b].emitted

\* C19: once every search that was started has ended and been shown, the
\* window shows what the worker started last emitted.
C19_LatestPresented ==
    (worker # 0 /\ running_threads = {} /\ workers[worker].pc = "finished")
        => results_list = displayed(workers[worker].emitted[1])

(***************************************************************************)
(* Properties of a failed build, of the index contents and of the signals. *)
(***************************************************************************)
\* C21: when run has raised, the window never becomes ready and it has been
\* given something to show for the failure.
C21_BuildFailureSurfaced ==
    builder_pc = "raised" => ~is_ready /\ results_list # <<>>

\* the pairs <<key, word>> a map holds
Pairs(m) ==
    UNION {{<<m[k].seq, m[k].words[i]>> : i \in DOMAIN m[k].words} : k \in DOMAIN m}

\* a pronunciation with one trailing digit taken off every symbol
Normalized(pron) ==
    [n \in DOMAIN pron |->
        IF pron[n][Len(pron[n])] \in {"0", "1", "2", "3", "4", "5", "6", "7", "8", "9"}
        THEN SubSeq(pron[n], 1, Len(pron[n]) - 1)
        ELSE pron[n]]

\* the pairs the first n entries of the store call for
StorePairs(n) ==
    UNION {{<<Normalized(cmu_dict[e].prons[q]), lower(cmu_dict[e].word)>> :
               q \in DOMAIN cmu_dict[e].prons} : e \in 1..n}

\* C22: the map holds exactly the pairs <<normalized pronunciation, word>> of
\* the store entries consumed so far, and the finished map those of the whole
\* store.
C22_IndexExact ==
    /\ Pairs(builder_map) = StorePairs(builder_i)
    /\ \A m \in Range(finished_signal) \cup Range(phoneme_map) :
           Pairs(m) = StorePairs(Len(cmu_dict))

\* the window holds the map of a store with a word of two pronunciations
\* and a key that two words share
C22_Witness ==
    /\ is_ready
    /\ \E e \in DOMAIN cmu_dict : Len(cmu_dict[e].prons) = 2
    /\ \E k \in DOMAIN phoneme_map[1] : Len(phoneme_map[1][k].words) >= 2
    /\ \E k \in DOMAIN phoneme_map[1] :
           phoneme_map[1][k].words[1] # phoneme_map[1][k].words[Len(phoneme_map[1][k].words)]

\* C23: a worker that has not run process has emitted nothing, one that has
\* run it has emitted exactly once, an unknown word or an empty set of kept
\* words giving the empty list.
C23_EmitsOnce ==
    \A w \in Slots :
        /\ workers[w].pc = "constructed" => workers[w].emitted = <<>>
        /\ workers[w].pc = "finished" =>
              /\ Len(workers[w].emitted) = 1
              /\ (get_prons(cmu_dict, workers[w].word) = <<>> \/ Kept(w) = {})
                     => workers[w].emitted[1] = <<>>

\* a worker has emitted the empty list for a word the store does not hold
C23_Witness ==
    \E w \in Finished :
        /\ get_prons(cmu_dict, workers[w].word) = <<>>
        /\ workers[w].emitted = << <<>> >>

\* C24: every worker start_search has made filters by frequency exactly when
\* its result cap is above 0.
C24_FilterIffCapped ==
    \A w \in connected :
        workers[w].pc # "idle" =>
            (workers[w].use_freq_filter <=> workers[w].max_results > 0)

\* a search made with 'Unlimited Results' pressed, after the limit slider
\* had been moved
C24_Witness ==
    \E w \in connected :
        /\ workers[w].pc = "constructed"
        /\ workers[w].max_results = 0
        /\ ~workers[w].use_freq_filter
        /\ unlimited_button
        /\ result_limit_slider # 10

(***************************************************************************)
(* Properties of the translation-chain tool.                               *)
(***************************************************************************)
\* slot numbers strictly ascending along the list
StrictlyAscending(list) ==
    \A i, j \in DOMAIN list : i < j => list[i][1] < list[j][1]

\* C26: language_slots is always strictly ascending by slot number; an add
\* whose slot number is already in the list puts the new language in that
\* slot and keeps the length, and an add with no slot number adds the slot
\* max + 1 (1 for the empty list).
C26_SlotsAscending ==
    [][/\ StrictlyAscending(language_slots)
       /\ StrictlyAscending(language_slots')
       /\ (add_language_slot /\ parse_language(lang_code_input) # <<>>) =>
             LET code == parse_language(lang_code_input)
                 typed == strip(slot_input)
             IN  /\ typed = <<>> =>
                        /\ Len(language_slots') = Len(language_slots) + 1
                        /\ <<max_slot(language_slots) + 1, code>>
                               \in Range(language_slots')
                 /\ \A i \in DOMAIN language_slots :
                        int(typed) = <<language_slots[i][1]>> =>
                            /\ Len(language_slots') = Len(language_slots)
                            /\ language_slots'[i] = <<language_slots[i][1], code>>
      ]_vars

\* a slot typed as -1 was added after the slots 1 and 2, and stands first
C26_Witness ==
    /\ Len(language_slots) = 3
    /\ language_slots[1][1] = -1
    /\ language_slots[3] = <<2, <<"e", "s">>>>

\* the workers in flight: run has not returned, or its finished or error
\* signal has not been handled
in_flight ==
    Len(translation_workers)
    + Cardinality({n \in DOMAIN translation_signals :
                      translation_signals[n].kind \in {"finished", "error"}})

\* C25: at most one TranslationWorker is in flight, and run_button is
\* disabled exactly while one is.
C25_OneWorkerInFlight ==
    /\ in_flight <= 1
    /\ run_button <=> in_flight = 0

\* a worker is in flight after one run has ended in error and one in finished
C25_Witness ==
    /\ in_flight = 1
    /\ ~run_button
    /\ Len(history) = 1
    /\ worker_thread = "running"

\* C27 (as claimed): analyze_a_to_z ends without an exception and the i-th
\* section of its report is headed with the i-th letter of a..z.
C27_SectionsMatchLetters ==
    /\ ~analyzer_raised
    /\ \A i \in DOMAIN html_content : html_content[i] = <<Lower[i]>>

====
